---------------------------- MODULE Spec2Model ----------------------------
(***************************************************************************)
(* A model of the tensor-reshaping utilities of the XSwin network and of   *)
(* the XNetSwinTransformer built on them (models/xswin.py), of the         *)
(* SwinTransformer (models/swin.py), of the modulated transformer block    *)
(* (models/modules/modulated/vit_block.py), of the SE(3) geodesic loss     *)
(* (models/modules/geodesic_loss.py) and of the pose dataset indexer       *)
(* (pose_estimation/pose_data_class.py).                                   *)
(*                                                                         *)
(* A tensor is a record [kind, shape, data]: shape is the sequence of its  *)
(* dimension sizes and data its elements in row-major (contiguous) order.  *)
(* A call that raises is a record whose kind is the name of the exception. *)
(***************************************************************************)
EXTENDS Integers, Sequences, FiniteSets

(***************************************************************************)
(* Bounds of the model.                                                    *)
(***************************************************************************)
MaxBatch == 2
MaxSide == 4
MaxChannels == 8
MaxWindow == 2
MaxNumel == 32
MaxPoses == 2
MaxFiles == 3
MaxSplits == 2
MaxCalls == 2
MaxStages == 3
MaxMiddle == 2

VARIABLES
    op,             \* the call the tensor pipeline has made last
    x_in,           \* the feature map handed to the call
    residual_in,    \* the encoder residual handed to the cross attention
    window_size,    \* <<window_height, window_width>> of the call
    distributed,    \* the distributed argument of the _pad_expansion call
    windows,        \* what _extract_windows returned
    result,         \* what the call returned (or the exception it raised)
    loss_pc,        \* SpecialEuclideanGeodesicLoss: "built", then "done"
    SO_Loss,        \* self.SO_Loss
    predicted_transform,    \* the batch of predicted 3x4 transforms
    target_transform,       \* the batch of target 3x4 transforms
    losses,         \* the stack of loss terms forward computed
    returned,       \* what forward returned: the stack, or <<its mean>>
    pose_pc,        \* PoseData: "new", then "scanned" or "failed"
    listing,        \* os.listdir(data_path): the files, in listing order
    entries,        \* the component entries organize_data created, by identity
    records,        \* the record dictionaries organize_data created, by identity
    parent,         \* the PoseData instance the last split was called on
    child,          \* the PoseData instance the last split returned
    last_call,      \* the last split: its name and its argument
    nsplits,        \* the number of splits made
    decodes,        \* per file, the number of Image.open calls on it
    invocations,    \* per entry, the number of times its loader was invoked
    asked,          \* the last instance[indices]: the instance and the indices
    got,            \* what the last instance[indices] returned or raised
    net_pc,         \* the network: "built", then where its forward is
    config,         \* the arguments the network was constructed with
    encoder,        \* self.encoder, the module list __init__ built
    middle,         \* self.middle
    decoder,        \* self.decoder
    x_net,          \* the local x of forward: a feature map's shape
    conv_residual,  \* the local conv_residual of forward: its height, width
    residuals,      \* the local residuals of forward
    i_loop,         \* the index the running loop of forward has reached
    trace,          \* the modules forward has applied, in order
    vit_pc,         \* ViTEncoderBlock_Modulated: "built", then "done"
    vit_input,      \* the shape of the tensor forward is called with
    vit_locals,     \* the local variables of forward when it ended
    vit_return      \* what forward returned (or the exception it raised)

tensorVars == <<op, x_in, residual_in, window_size, distributed, windows,
                result>>

lossVars == <<loss_pc, SO_Loss, predicted_transform, target_transform,
              losses, returned>>

poseVars == <<pose_pc, listing, entries, records, parent, child, last_call,
              nsplits, decodes, invocations, asked, got>>

netVars == <<net_pc, config, encoder, middle, decoder, x_net, conv_residual,
             residuals, i_loop, trace>>

vitVars == <<vit_pc, vit_input, vit_locals, vit_return>>

vars == <<tensorVars, lossVars, poseVars, netVars, vitVars>>

\* The loss is not part of the run.
LossOff ==
    /\ loss_pc = "off"
    /\ SO_Loss = FALSE
    /\ predicted_transform = <<>>
    /\ target_transform = <<>>
    /\ losses = <<>>
    /\ returned = <<>>

\* The dataset indexer is not part of the run.
PoseOff ==
    /\ pose_pc = "off"
    /\ listing = <<>>
    /\ entries = <<>>
    /\ records = <<>>
    /\ parent = <<>>
    /\ child = <<>>
    /\ last_call = <<>>
    /\ nsplits = 0
    /\ decodes = <<>>
    /\ invocations = <<>>
    /\ asked = <<>>
    /\ got = <<>>

\* No network is part of the run.
NetOff ==
    /\ net_pc = "off"
    /\ config = <<>>
    /\ encoder = <<>>
    /\ middle = <<>>
    /\ decoder = <<>>
    /\ x_net = <<>>
    /\ conv_residual = <<>>
    /\ residuals = <<>>
    /\ i_loop = 0
    /\ trace = <<>>

\* No modulated block is part of the run.
ViTOff ==
    /\ vit_pc = "off"
    /\ vit_input = <<>>
    /\ vit_locals = <<>>
    /\ vit_return = <<>>

-----------------------------------------------------------------------------
(***************************************************************************)
(* Tensors.                                                                *)
(***************************************************************************)
RECURSIVE Prod(_)
Prod(s) == IF s = <<>> THEN 1 ELSE Head(s) * Prod(Tail(s))

RECURSIVE SeqSum(_)
SeqSum(s) == IF s = <<>> THEN 0 ELSE Head(s) + SeqSum(Tail(s))

Tensor(shape, data) == [kind |-> "tensor", shape |-> shape, data |-> data]

Raise(exception) == [kind |-> exception, shape |-> <<>>, data |-> <<>>]

NoTensor == Raise("none")

IsTensor(t) == t.kind = "tensor"

\* The tensor utilities are not part of the run.
TensorOff ==
    /\ op = "off"
    /\ x_in = NoTensor
    /\ residual_in = NoTensor
    /\ window_size = <<1, 1>>
    /\ distributed = FALSE
    /\ windows = NoTensor
    /\ result = NoTensor

Numel(t) == Prod(t.shape)

\* The stride of dimension d (1-based) of a contiguous tensor of this shape.
Stride(shape, d) == Prod(SubSeq(shape, d + 1, Len(shape)))

\* The 0-based coordinate along dimension d of the k-th element (1-based).
Coord(k, shape, d) == ((k - 1) \div Stride(shape, d)) % shape[d]

\* The position in data (1-based) of the element at 0-based index idx.
Offset(idx, shape) ==
    1 + SeqSum([d \in 1..Len(shape) |-> idx[d] * Stride(shape, d)])

At(t, idx) == t.data[Offset(idx, t.shape)]

\* A Python dimension number (0-based, negative from the end) as 1-based.
Dim(d, rank) == IF d < 0 THEN d + rank + 1 ELSE d + 1

\* A feature map whose elements are all different: element k holds k.
Tagged(shape) == Tensor(shape, [k \in 1..Prod(shape) |-> k])

\* torch.Tensor.view and, on a contiguous tensor, torch.Tensor.reshape.
View(t, shape) ==
    IF Prod(shape) = Numel(t) THEN Tensor(shape, t.data)
    ELSE Raise("RuntimeError")

\* torch.Tensor.permute followed by the copy contiguous() or reshape() makes.
Permute(t, dims) ==
    LET rank == Len(t.shape)
        src(i) == Dim(dims[i], rank)
        shape == [i \in 1..rank |-> t.shape[src(i)]]
    IN  Tensor(shape,
               [k \in 1..Prod(shape) |->
                   t.data[1 + SeqSum([i \in 1..rank |->
                       Coord(k, shape, i) * Stride(t.shape, src(i))])]])

\* torch.Tensor.unfold(dimension, size, step).
Unfold(t, dimension, size, step) ==
    LET rank == Len(t.shape)
        d == Dim(dimension, rank)
        count == ((t.shape[d] - size) \div step) + 1
        shape == [i \in 1..(rank + 1) |->
                    IF i = d THEN count
                    ELSE IF i = rank + 1 THEN size ELSE t.shape[i]]
    IN  IF size > t.shape[d] THEN Raise("RuntimeError")
        ELSE Tensor(shape,
               [k \in 1..Prod(shape) |->
                   t.data[1 + SeqSum([i \in 1..rank |->
                       (IF i = d
                        THEN Coord(k, shape, d) * step + Coord(k, shape, rank + 1)
                        ELSE Coord(k, shape, i)) * Stride(t.shape, i)])]])

\* F.pad(x, (0, pad_c), "constant", 0): zeros after the last dimension.
PadChannels(t, pad_c) ==
    LET rank == Len(t.shape)
        C == t.shape[rank]
        shape == [t.shape EXCEPT ![rank] = C + pad_c]
    IN  Tensor(shape,
               [k \in 1..Prod(shape) |->
                   IF Coord(k, shape, rank) < C
                   THEN t.data[1 + SeqSum([i \in 1..rank |->
                            Coord(k, shape, i) * Stride(t.shape, i)])]
                   ELSE 0])

-----------------------------------------------------------------------------
(***************************************************************************)
(* models/xswin.py                                                         *)
(***************************************************************************)
\* _pad_expansion with the distributed test made before the padding test.
PadExpansionDistributedFirst(x, is_distributed) ==
    LET C == x.shape[Len(x.shape)]
        pad_c == (4 - (C % 4)) % 4
    IN  IF is_distributed THEN Raise("NotImplementedError")
        ELSE IF pad_c = 0 THEN x
        ELSE PadChannels(x, pad_c)

_pad_expansion(x, is_distributed) ==
    LET C == x.shape[Len(x.shape)]
        pad_c == (4 - (C % 4)) % 4
    IN  IF pad_c = 0 THEN x
        ELSE IF ~is_distributed THEN PadChannels(x, pad_c)
        ELSE Raise("NotImplementedError")

\* _patch_expanding_pad without the permute: the 2x2 axes stay behind W.
PatchExpandingPadNoSwap(x) ==
    LET B == x.shape[1]
        H_HALF == x.shape[2]
        W_HALF == x.shape[3]
        C == x.shape[4] \div 4
        viewed == View(_pad_expansion(x, FALSE), <<B, H_HALF, W_HALF, 2, 2, C>>)
    IN  IF ~IsTensor(viewed) THEN viewed
        ELSE View(viewed, <<B, H_HALF * 2, W_HALF * 2, C>>)

_patch_expanding_pad(x) ==
    LET B == x.shape[1]
        H_HALF == x.shape[2]
        W_HALF == x.shape[3]
        C == x.shape[4] \div 4
        padded == _pad_expansion(x, FALSE)
        viewed == View(padded, <<B, H_HALF, W_HALF, 2, 2, C>>)
    IN  IF ~IsTensor(viewed) THEN viewed
        ELSE View(Permute(viewed, <<0, 1, 3, 2, 4, 5>>),
                  <<B, H_HALF * 2, W_HALF * 2, C>>)

_extract_windows(feature_map, window_height, window_width) ==
    LET stride_height == window_height
        stride_width == window_width
        unfolded_height == Unfold(feature_map, -3, window_height, stride_height)
        unfolded_both == Unfold(unfolded_height, -3, window_width, stride_width)
        permuted == Permute(unfolded_both, <<0, -5, -4, -2, -1, -3>>)
    IN  IF ~IsTensor(unfolded_height) THEN unfolded_height
        ELSE IF ~IsTensor(unfolded_both) THEN unfolded_both
        ELSE View(permuted,
                  <<permuted.shape[1], permuted.shape[2], permuted.shape[3],
                    window_height * window_width, permuted.shape[6]>>)

\* The merge step without the permute: window rows stay behind the window grid.
MergeWindowsNoSwap(context, window_height, window_width) ==
    LET B == context.shape[1]
        H == context.shape[2]
        W == context.shape[3]
        C == context.shape[5]
        split == View(context, <<B, H, W, window_height, window_width, C>>)
    IN  IF ~IsTensor(split) THEN split
        ELSE View(split, <<B, H * window_height, W * window_width, C>>)

\* The merge step of SwinResidualCrossAttention.forward, on a tensor of the
\* windowed layout [B, H, W, WINDOW, C].
MergeWindows(context, window_height, window_width) ==
    LET B == context.shape[1]
        H == context.shape[2]
        W == context.shape[3]
        C == context.shape[5]
        split == View(context, <<B, H, W, window_height, window_width, C>>)
    IN  IF ~IsTensor(split) THEN split
        ELSE View(Permute(split, <<0, -5, -3, -4, -2, -1>>),
                  <<B, H * window_height, W * window_width, C>>)

\* nn.MultiheadAttention(Q, K, V), batch_first: a new tensor of the shape of Q.
\* Its values are the layer's; element k of the output is named k.
cross_attention(Q, K, V) == Tagged(Q.shape)

\* forward with the assertion on the inputs' shapes instead of the windowed ones.
ForwardAssertInputs(x, residual, window_height, window_width) ==
    LET x_context == _extract_windows(x, window_height, window_width)
        residual_context == _extract_windows(residual, window_height, window_width)
    IN  IF ~IsTensor(x_context) THEN x_context
        ELSE IF ~IsTensor(residual_context) THEN residual_context
        ELSE IF x.shape # residual.shape THEN Raise("AssertionError")
        ELSE MergeWindows(x_context, window_height, window_width)

SwinResidualCrossAttention_forward(x, residual, window_height, window_width) ==
    LET x_context == _extract_windows(x, window_height, window_width)
        residual_context == _extract_windows(residual, window_height, window_width)
        WINDOW == residual_context.shape[4]
        C == residual_context.shape[5]
        Q == View(x_context, <<Numel(x_context) \div (WINDOW * C), WINDOW, C>>)
        K == View(residual_context,
                  <<Numel(residual_context) \div (WINDOW * C), WINDOW, C>>)
        attended_residuals == cross_attention(Q, K, K)
    IN  IF ~IsTensor(x_context) THEN x_context
        ELSE IF ~IsTensor(residual_context) THEN residual_context
        ELSE IF x_context.shape # residual_context.shape
             THEN Raise("AssertionError")
        ELSE MergeWindows(
                View(attended_residuals, residual_context.shape),
                window_height, window_width)

-----------------------------------------------------------------------------
(***************************************************************************)
(* The tensor pipeline: one call on a feature map.                         *)
(***************************************************************************)
FeatureShapes ==
    {s \in (1..MaxBatch) \X (1..MaxSide) \X (1..MaxSide) \X (1..MaxChannels) :
        Prod(s) <= MaxNumel}

TensorInit ==
    /\ op = "idle"
    /\ x_in \in {Tagged(s) : s \in FeatureShapes}
    /\ residual_in = NoTensor
    /\ window_size = <<1, 1>>
    /\ distributed = FALSE
    /\ windows = NoTensor
    /\ result = NoTensor
    /\ LossOff
    /\ PoseOff
    /\ NetOff
    /\ ViTOff

ExtractWindows(wh, ww) ==
    /\ op = "idle"
    /\ op' = "extract"
    /\ window_size' = <<wh, ww>>
    /\ windows' = _extract_windows(x_in, wh, ww)
    /\ UNCHANGED <<x_in, residual_in, distributed, result, lossVars, poseVars, netVars, vitVars>>

Merge ==
    /\ op = "extract"
    /\ IsTensor(windows)
    /\ op' = "merge"
    /\ result' = MergeWindows(windows, window_size[1], window_size[2])
    /\ UNCHANGED <<x_in, residual_in, window_size, distributed, windows,
                   lossVars, poseVars, netVars, vitVars>>

CrossAttention(rh, rw, wh, ww) ==
    /\ op = "idle"
    /\ x_in.shape[1] * rh * rw * x_in.shape[4] <= MaxNumel
    /\ op' = "forward"
    /\ window_size' = <<wh, ww>>
    /\ residual_in' = Tagged(<<x_in.shape[1], rh, rw, x_in.shape[4]>>)
    /\ result' = SwinResidualCrossAttention_forward(x_in, residual_in', wh, ww)
    /\ UNCHANGED <<x_in, distributed, windows, lossVars, poseVars, netVars, vitVars>>

PatchExpandingPad ==
    /\ op = "idle"
    /\ op' = "expand"
    /\ result' = _patch_expanding_pad(x_in)
    /\ UNCHANGED <<x_in, residual_in, window_size, distributed, windows,
                   lossVars, poseVars, netVars, vitVars>>

\* _pad_expansion(x, distributed) called on its own.
PadExpansion(d) ==
    /\ op = "idle"
    /\ op' = "pad"
    /\ distributed' = d
    /\ result' = _pad_expansion(x_in, d)
    /\ UNCHANGED <<x_in, residual_in, window_size, windows, lossVars, poseVars, netVars, vitVars>>

TensorNext ==
    \/ \E wh, ww \in 1..MaxWindow : ExtractWindows(wh, ww)
    \/ Merge
    \/ \E rh, rw \in 1..MaxSide, wh, ww \in 1..MaxWindow :
            CrossAttention(rh, rw, wh, ww)
    \/ PatchExpandingPad
    \/ \E d \in BOOLEAN : PadExpansion(d)

SpecTensor == TensorInit /\ [][TensorNext]_vars

-----------------------------------------------------------------------------
(***************************************************************************)
(* Properties of the tensor pipeline.                                      *)
(***************************************************************************)
XB == x_in.shape[1]
XH == x_in.shape[2]
XW == x_in.shape[3]
XC == x_in.shape[4]
WinH == window_size[1]
WinW == window_size[2]

\* C1 (as stated): for every feature map and every window size, extraction
\* followed by the merge step returns a tensor of the feature map's shape,
\* equal to it element for element.  Stated for the window sizes on which
\* the extraction returns at all.
C1_RoundTripAlways ==
    op = "merge" => /\ IsTensor(result)
                    /\ result.shape = x_in.shape
                    /\ result.data = x_in.data

\* C1 (amended): extraction succeeds exactly when the window fits the map;
\* the merge of the extracted windows is then the top-left block of
\* floor(H/wh)*wh rows and floor(W/ww)*ww columns of the feature map, element
\* for element, and is the feature map itself when wh divides H and ww
\* divides W.
C1_RoundTripOnWholeWindows ==
    /\ op = "extract" => (IsTensor(windows) <=> (WinH <= XH /\ WinW <= XW))
    /\ op = "merge" =>
        /\ IsTensor(result)
        /\ result.shape =
             <<XB, (XH \div WinH) * WinH, (XW \div WinW) * WinW, XC>>
        /\ \A b \in 0..(XB - 1), h \in 0..(result.shape[2] - 1),
              w \in 0..(result.shape[3] - 1), c \in 0..(XC - 1) :
                At(result, <<b, h, w, c>>) = At(x_in, <<b, h, w, c>>)
        /\ (XH % WinH = 0 /\ XW % WinW = 0) => result = x_in

\* C1 witness: a round trip over a 2x2 grid of 2x2 windows with two channels.
C1_Witness ==
    /\ op = "merge"
    /\ WinH >= 2 /\ WinW >= 2 /\ XC >= 2
    /\ XH % WinH = 0 /\ XW % WinW = 0
    /\ XH \div WinH >= 2 /\ XW \div WinW >= 2
    /\ result = x_in

RH == residual_in.shape[2]
RW == residual_in.shape[3]

\* C2 (as stated): whenever the spatial sizes of x and residual differ,
\* forward raises the shape-mismatch assertion and returns nothing.  Stated
\* for the inputs the window fits, on which the assertion is reached.
C2_MismatchAlwaysAsserts ==
    (/\ op = "forward"
     /\ <<XH, XW>> # <<RH, RW>>
     /\ WinH <= XH /\ WinW <= XW /\ WinH <= RH /\ WinW <= RW)
        => result.kind = "AssertionError"

\* C2 (amended): forward raises the shape-mismatch assertion exactly when the
\* window fits both inputs and their window counts floor(H/wh), floor(W/ww)
\* differ; with equal window counts it returns a tensor of shape
\* [B, floor(H/wh)*wh, floor(W/ww)*ww, C] even if the spatial sizes differ;
\* when the window does not fit an input, unfold raises before the assertion.
C2_AssertsOnWindowCounts ==
    op = "forward" =>
        LET fits == /\ WinH <= XH /\ WinW <= XW
                    /\ WinH <= RH /\ WinW <= RW
            same == /\ XH \div WinH = RH \div WinH
                    /\ XW \div WinW = RW \div WinW
        IN  /\ result.kind = "RuntimeError" <=> ~fits
            /\ result.kind = "AssertionError" <=> (fits /\ ~same)
            /\ IsTensor(result) <=> (fits /\ same)
            /\ IsTensor(result) => result.shape =
                 <<XB, (XH \div WinH) * WinH, (XW \div WinW) * WinW, XC>>

\* C2 witness: inputs of different spatial sizes for which forward returns.
C2_Witness ==
    /\ op = "forward"
    /\ XH # RH /\ XW # RW
    /\ IsTensor(result)

C4_PaddedExpansionCompletes ==
    (op = "expand" /\ XC % 4 # 0) =>
        /\ IsTensor(_pad_expansion(x_in, FALSE))
        /\ _pad_expansion(x_in, FALSE).shape[4] = 4 * ((XC \div 4) + 1)
        /\ IsTensor(result)
        /\ result.shape[2] = 2 * XH
        /\ result.shape[3] = 2 * XW

\* C11 (as stated): every call of _pad_expansion with distributed=True ends
\* in NotImplementedError, whatever the channel count; none returns a tensor.
C11_DistributedAlwaysRaises ==
    (op = "pad" /\ distributed) => result.kind = "NotImplementedError"

\* C11 (amended): a call with distributed=True ends in NotImplementedError
\* exactly when the channel count is not a multiple of 4; on a multiple of 4
\* the padding test returns first and the call returns its input unchanged,
\* as it does with distributed=False.  With distributed=False and a channel
\* count that is no multiple of 4 the input comes back with zero channels
\* appended up to the next multiple of 4.
C11_DistributedRaisesWhenPaddingIsNeeded ==
    op = "pad" =>
        /\ (distributed /\ XC % 4 # 0) => result.kind = "NotImplementedError"
        /\ XC % 4 = 0 => result = x_in
        /\ (~distributed /\ XC % 4 # 0) =>
            /\ IsTensor(result)
            /\ result.shape = <<XB, XH, XW, 4 * ((XC \div 4) + 1)>>
            /\ \A b \in 0..(XB - 1), h \in 0..(XH - 1), w \in 0..(XW - 1),
                  c \in 0..(result.shape[4] - 1) :
                    At(result, <<b, h, w, c>>) =
                        IF c < XC THEN At(x_in, <<b, h, w, c>>) ELSE 0

\* C11 witness: a call with distributed=True on 8 channels that returned
\* its input.
C11_Witness ==
    /\ op = "pad"
    /\ distributed
    /\ XC = 8 /\ XH >= 2
    /\ IsTensor(result)
    /\ result = x_in

-----------------------------------------------------------------------------
(***************************************************************************)
(* models/modules/geodesic_loss.py                                         *)
(*                                                                         *)
(* A transform is a 3x4 integer matrix, a sequence of three rows.  Real    *)
(* results are kept in thousandths, rounded down: a norm of 3.5 is 3500,   *)
(* an angle of pi/2 is 1570.                                               *)
(***************************************************************************)
Identity3 == <<<<1, 0, 0>>, <<0, 1, 0>>, <<0, 0, 1>>>>

\* The transforms a batch entry is drawn from: four rotations (by 0, 90, 180
\* and 120 degrees) with their translations, and one scaling, which is no
\* rotation.
Transforms ==
    { <<<<1, 0, 0, 0>>, <<0, 1, 0, 0>>, <<0, 0, 1, 0>>>>,
      <<<<0, -1, 0, 3>>, <<1, 0, 0, 0>>, <<0, 0, 1, 0>>>>,
      <<<<1, 0, 0, 0>>, <<0, -1, 0, 4>>, <<0, 0, -1, 0>>>>,
      <<<<0, 0, 1, 3>>, <<1, 0, 0, 4>>, <<0, 1, 0, 0>>>>,
      <<<<2, 0, 0, 0>>, <<0, 2, 0, 0>>, <<0, 0, 2, 0>>>> }

\* transform[:3, 3] and transform[:3, :3] of one batch entry.
Translation(m) == [i \in 1..3 |-> m[i][4]]
Rotation(m) == [i \in 1..3 |-> [j \in 1..3 |-> m[i][j]]]

Transpose(a) == [i \in 1..3 |-> [j \in 1..3 |-> a[j][i]]]
MatMul(a, b) ==
    [i \in 1..3 |-> [j \in 1..3 |->
        a[i][1] * b[1][j] + a[i][2] * b[2][j] + a[i][3] * b[3][j]]]
MatSub(a, b) == [i \in 1..3 |-> [j \in 1..3 |-> a[i][j] - b[i][j]]]
Trace(a) == a[1][1] + a[2][2] + a[3][3]
Det(a) ==
      a[1][1] * (a[2][2] * a[3][3] - a[2][3] * a[3][2])
    - a[1][2] * (a[2][1] * a[3][3] - a[2][3] * a[3][1])
    + a[1][3] * (a[2][1] * a[3][2] - a[2][2] * a[3][1])
SumSquares3(v) == v[1] * v[1] + v[2] * v[2] + v[3] * v[3]
SumSquares33(a) == SumSquares3(a[1]) + SumSquares3(a[2]) + SumSquares3(a[3])

\* The largest r in lo..(hi-1) with r*r <= n.
RECURSIVE SqrtBetween(_, _, _)
SqrtBetween(n, lo, hi) ==
    IF hi - lo <= 1 THEN lo
    ELSE LET mid == (lo + hi) \div 2
         IN  IF mid * mid <= n THEN SqrtBetween(n, mid, hi)
             ELSE SqrtBetween(n, lo, mid)

\* sqrt(n) in thousandths, for an integer n.
SqrtMilli(n) == SqrtBetween(1000000 * n, 0, 46340)

\* The mean of a sequence of values.
Mean(s) == SeqSum(s) \div Len(s)

\* torch.clamp(cos_theta, -0.9999, 0.9999), on cosines in ten-thousandths.
ClampBound == 9999
ClampToUnit(c) == IF c < -10000 THEN -10000 ELSE IF c > 10000 THEN 10000 ELSE c
Clamp(c) ==
    IF c < -ClampBound THEN -ClampBound
    ELSE IF c > ClampBound THEN ClampBound ELSE c

\* torch.acos in thousandths of a radian, on the cosines (in ten-thousandths)
\* that integer traces produce: (trace - 1) / 2 is a multiple of 0.5.
Acos(c) ==
    CASE c = 10000 -> 0
      [] c = 9999 -> 14
      [] c = 5000 -> 1047
      [] c = 0 -> 1570
      [] c = -5000 -> 2094
      [] c = -9999 -> 3127
      [] c = -10000 -> 3141

\* SO_weight = 0.1, in tenths.
SO_weight == 1

\* translation_loss = torch.norm(p_T - t_T).mean(): the norm, given no dim,
\* is taken over the whole [N, 3] difference and is a scalar.
translation_loss(p, t) ==
    LET diff == [n \in 1..Len(p) |->
                    [i \in 1..3 |-> Translation(p[n])[i] - Translation(t[n])[i]]]
    IN  SqrtMilli(SeqSum([n \in 1..Len(p) |-> SumSquares3(diff[n])]))

theta(p_R, t_R) ==
    LET relative_rotation == MatMul(p_R, Transpose(t_R))
        batch_trace == Trace(relative_rotation)
        cos_theta == (batch_trace - 1) * 5000
    IN  Acos(Clamp(cos_theta))

rotation_loss(p, t) ==
    Mean([n \in 1..Len(p) |-> theta(Rotation(p[n]), Rotation(t[n]))])

ortho_loss(p) ==
    Mean([n \in 1..Len(p) |->
        SqrtMilli(SumSquares33(
            MatSub(MatMul(Rotation(p[n]), Transpose(Rotation(p[n]))),
                   Identity3)))])

forward_losses(p, t, so_loss) ==
    <<rotation_loss(p, t), translation_loss(p, t)>>
        \o (IF so_loss THEN <<(ortho_loss(p) * SO_weight) \div 10>> ELSE <<>>)

Batches == UNION {[1..n -> Transforms] : n \in 1..MaxPoses}

LossInit ==
    /\ loss_pc = "built"
    /\ SO_Loss \in BOOLEAN
    /\ predicted_transform \in Batches
    /\ target_transform \in [1..Len(predicted_transform) -> Transforms]
    /\ losses = <<>>
    /\ returned = <<>>
    /\ TensorOff
    /\ PoseOff
    /\ NetOff
    /\ ViTOff

Forward(components) ==
    /\ loss_pc = "built"
    /\ loss_pc' = "done"
    /\ losses' = forward_losses(predicted_transform, target_transform, SO_Loss)
    /\ returned' = IF components THEN losses' ELSE <<Mean(losses')>>
    /\ UNCHANGED <<SO_Loss, predicted_transform, target_transform,
                   tensorVars, poseVars, netVars, vitVars>>

LossNext == \E components \in BOOLEAN : Forward(components)

SpecLoss == LossInit /\ [][LossNext]_vars

-----------------------------------------------------------------------------
(***************************************************************************)
(* Properties of the geodesic loss.                                        *)
(***************************************************************************)
IsRotation(a) == MatMul(a, Transpose(a)) = Identity3 /\ Det(a) = 1

SameRotations ==
    /\ predicted_transform = target_transform
    /\ \A n \in 1..Len(predicted_transform) :
            IsRotation(Rotation(predicted_transform[n]))

\* C7 (as stated): when predicted and target are the same transforms, with
\* rotation matrices as rotation parts, the rotation term is 0.
C7_RotationTermZero ==
    (loss_pc = "done" /\ SameRotations) => losses[1] = 0

\* C7 (amended): when predicted and target are the same transforms, with
\* rotation matrices as rotation parts, the rotation term is acos(0.9999),
\* about 0.0141 rad, the smallest angle the clamp lets through: not 0.
C7_RotationTermClampFloor ==
    (loss_pc = "done" /\ SameRotations) =>
        /\ losses[1] = Acos(ClampBound)
        /\ losses[1] > 0

\* C7 witness: a batch of two identical pairs of proper, non-identity
\* rotations has been through forward.
C7_Witness ==
    /\ loss_pc = "done"
    /\ SameRotations
    /\ Len(predicted_transform) = 2
    /\ Rotation(predicted_transform[1]) # Identity3
    /\ Rotation(predicted_transform[2]) # Rotation(predicted_transform[1])
    /\ losses[1] = 14

\* The norm of one batch entry's translation difference, in thousandths.
EntryNorm(n) ==
    SqrtMilli(SumSquares3(
        [i \in 1..3 |-> Translation(predicted_transform[n])[i]
                        - Translation(target_transform[n])[i]]))

\* C8: the translation term is the mean over the batch entries of the norm
\* of the entry's translation difference, and 0 on identical transforms.
C8_TranslationTermIsMeanNorm ==
    loss_pc = "done" =>
        /\ losses[2] * Len(predicted_transform) =
             SeqSum([n \in 1..Len(predicted_transform) |-> EntryNorm(n)])
        /\ predicted_transform = target_transform => losses[2] = 0

-----------------------------------------------------------------------------
(***************************************************************************)
(* pose_estimation/pose_data_class.py                                      *)
(*                                                                         *)
(* A file "<level>-<scene>-<variant>_<tag>.<ext>" is a record of its key   *)
(* and its tag.  Dictionaries are functions; a dictionary whose order of   *)
(* insertion matters (data) also keeps its keys as a sequence.  Record     *)
(* dictionaries and component entries are objects: they live in records    *)
(* and entries and are referred to by their position there.                *)
(***************************************************************************)
File(level, scene, variant, tag) ==
    [key |-> <<level, scene, variant>>, tag |-> tag]

\* The files a directory may hold.
DirFiles ==
    { File(1, 1, 1, "color"), File(1, 1, 1, "meta"), File(2, 1, 1, "depth"),
      File(1, 2, 1, "label"), File(1, 1, 2, "color"), File(2, 1, 1, "notes") }

\* The lines a split manifest may hold, as keys.
Manifests ==
    { <<>>,
      << <<1, 1, 1>> >>,
      << <<1, 2, 1>>, <<1, 1, 1>> >>,
      << <<1, 1, 1>>, <<1, 1, 1>> >>,
      << <<2, 1, 1>>, <<1, 1, 2>> >>,
      << <<1, 1, 1>>, <<2, 1, 1>>, <<1, 2, 1>> >> }

\* The levels level_split may be asked for.
Levels == {1, 2, 3}

components == <<"color", "depth", "label", "meta">>

Range(s) == {s[i] : i \in DOMAIN s}

\* d[k] = v on a dictionary d.
Put(d, k, v) == [x \in (DOMAIN d) \cup {k} |-> IF x = k THEN v ELSE d[x]]

get_component(filename) ==
    IF filename.tag \in Range(components) THEN filename.tag ELSE "KeyError"

\* The normalizer of an image component; 0 stands for None.
normalizer(component) ==
    IF component = "color" THEN 255
    ELSE IF component = "depth" THEN 1000 ELSE 0

\* The entry built for a file: the unpickled metadata, or the generator
\* closed over the file's path and normalizer.
Entry(filename, component) ==
    IF component = "meta"
    THEN [kind |-> "meta", filepath |-> filename, normalizer |-> 0]
    ELSE [kind |-> "loader", filepath |-> filename,
          normalizer |-> normalizer(component)]

\* {"key" : key}
NewRecord(key) == [key |-> key, entry |-> <<>>]

EmptyData == [order |-> <<>>, rec |-> <<>>]

\* data[key] = record, keeping the place of a key that is already there.
DataPut(data, key, record) ==
    [order |-> IF key \in DOMAIN data.rec THEN data.order
               ELSE Append(data.order, key),
     rec |-> Put(data.rec, key, record)]

HasLeaf(nested, level, scene, variant) ==
    /\ level \in DOMAIN nested
    /\ scene \in DOMAIN nested[level]
    /\ variant \in DOMAIN nested[level][scene]

\* The "if ... not in ..." steps with the scene's dictionary made anew on
\* every call: the variants stored there before are lost.
NestedSetDefaultReset(nested, level, scene, variant, record) ==
    LET n1 == IF level \in DOMAIN nested THEN nested ELSE Put(nested, level, <<>>)
    IN  Put(n1, level, Put(n1[level], scene, Put(<<>>, variant, record)))

\* The three "if ... not in ..." steps that make nested[level][scene][variant]
\* exist; an existing leaf is kept.
NestedSetDefault(nested, level, scene, variant, record) ==
    LET n1 == IF level \in DOMAIN nested THEN nested ELSE Put(nested, level, <<>>)
        n2 == IF scene \in DOMAIN n1[level] THEN n1
              ELSE Put(n1, level, Put(n1[level], scene, <<>>))
    IN  IF variant \in DOMAIN n2[level][scene] THEN n2
        ELSE Put(n2, level,
                 Put(n2[level], scene, Put(n2[level][scene], variant, record)))

\* The loop of organize_data over the listing.  acc holds data, nested_data,
\* the objects created so far, the decode counts, and whether a file raised.
RECURSIVE organize_data_loop(_, _)
organize_data_loop(files, acc) ==
    IF files = <<>> \/ acc.failed THEN acc
    ELSE
      LET filename == Head(files)
          component == get_component(filename)
          key == filename.key
          level == key[1]
          scene == key[2]
          variant == key[3]
          inData == key \in DOMAIN acc.data.rec
          records1 == IF inData THEN acc.records
                      ELSE Append(acc.records, NewRecord(key))
          flat == IF inData THEN acc.data.rec[key] ELSE Len(records1)
          data1 == IF inData THEN acc.data ELSE DataPut(acc.data, key, flat)
          inNested == HasLeaf(acc.nested_data, level, scene, variant)
          records2 == IF inNested THEN records1
                      ELSE Append(records1, NewRecord(key))
          nested1 == NestedSetDefault(acc.nested_data, level, scene, variant,
                                      Len(records2))
          leaf == nested1[level][scene][variant]
          entries1 == Append(acc.entries, Entry(filename, component))
          entry == Len(entries1)
          records3 == [i \in 1..Len(records2) |->
                        IF i \in {flat, leaf}
                        THEN [records2[i] EXCEPT
                                !.entry = Put(@, component, entry)]
                        ELSE records2[i]]
      IN  IF component = "KeyError" THEN [acc EXCEPT !.failed = TRUE]
          ELSE organize_data_loop(Tail(files),
                 [acc EXCEPT !.data = data1, !.nested_data = nested1,
                             !.records = records3, !.entries = entries1])

organize_data(files, decoded) ==
    organize_data_loop(files,
        [data |-> EmptyData, nested_data |-> <<>>, records |-> <<>>,
         entries |-> <<>>, decodes |-> decoded, failed |-> FALSE])

\* PoseData.__init__ on processed data.
PoseData(data, nested_data) ==
    [data |-> data, nested_data |-> nested_data, keylist |-> data.order]

\* The loop both splits run over the keys they select.  acc holds split_data,
\* split_nested_data and whether self.data[key] raised KeyError.
RECURSIVE split_loop(_, _, _)
split_loop(self, keys, acc) ==
    IF keys = <<>> \/ acc.failed THEN acc
    ELSE
      LET key == Head(keys)
      IN  IF key \notin DOMAIN self.data.rec THEN [acc EXCEPT !.failed = TRUE]
          ELSE split_loop(self, Tail(keys),
                 [acc EXCEPT
                    !.data = DataPut(@, key, self.data.rec[key]),
                    !.nested_data = NestedSetDefault(@, key[1], key[2], key[3],
                                                     self.data.rec[key])])

\* The keys level_split keeps, with the level test made on the scene.
level_split_keys_by_scene(self, selected_level) ==
    SelectSeq(self.data.order, LAMBDA key : key[2] = selected_level)

\* The keys level_split keeps: those of self.data, in its order, whose level
\* is the selected one.
level_split_keys(self, selected_level) ==
    SelectSeq(self.data.order, LAMBDA key : key[1] = selected_level)

\* A split that stores, for every key, the record of the first selected key.
split_first_record(self, keys) ==
    LET acc == split_loop(self, keys,
                  [data |-> EmptyData, nested_data |-> <<>>, failed |-> FALSE])
        first == self.data.rec[keys[1]]
    IN  IF acc.failed \/ keys = <<>> THEN acc
        ELSE [acc EXCEPT !.data.rec = [k \in DOMAIN @ |-> first]]

split(self, keys) ==
    split_loop(self, keys,
        [data |-> EmptyData, nested_data |-> <<>>, failed |-> FALSE])

\* The generator of a cached loader: it decodes on its first invocation only.
generator_cached(entry, decoded, invoked) ==
    IF invoked[entry] > 0 THEN decoded
    ELSE [decoded EXCEPT ![entries[entry].filepath] = @ + 1]

\* generator() of the closure: np.array(Image.open(filepath)), one decode of
\* the file on every invocation.
generator(entry, decoded, invoked) ==
    [decoded EXCEPT ![entries[entry].filepath] = @ + 1]

Listings ==
    {s \in UNION {[1..n -> DirFiles] : n \in 0..MaxFiles} :
        \A i, j \in DOMAIN s : i # j => s[i] # s[j]}

NoInstance == [data |-> EmptyData, nested_data |-> <<>>, keylist |-> <<>>]

PoseInit ==
    /\ pose_pc = "new"
    /\ listing \in Listings
    /\ entries = <<>>
    /\ records = <<>>
    /\ parent = NoInstance
    /\ child = NoInstance
    /\ last_call = [name |-> "none", level |-> 0]
    /\ nsplits = 0
    /\ decodes = [f \in DirFiles |-> 0]
    /\ invocations = <<>>
    /\ asked = [on |-> "none", indices |-> <<>>]
    /\ got = [kind |-> "none", depth |-> 0, value |-> <<>>]
    /\ TensorOff
    /\ LossOff
    /\ NetOff
    /\ ViTOff

\* PoseData(data_path, models_path): __init__ scanning the directory.
Scan ==
    /\ pose_pc = "new"
    /\ LET scanned == organize_data(listing, decodes)
       IN  IF scanned.failed
           THEN /\ pose_pc' = "failed"
                /\ UNCHANGED <<entries, records, parent, decodes, invocations>>
           ELSE /\ pose_pc' = "scanned"
                /\ entries' = scanned.entries
                /\ records' = scanned.records
                /\ parent' = PoseData(scanned.data, scanned.nested_data)
                /\ decodes' = scanned.decodes
                /\ invocations' = [e \in 1..Len(scanned.entries) |-> 0]
    /\ UNCHANGED <<listing, child, last_call, nsplits, asked, got,
                   tensorVars, lossVars, netVars, vitVars>>

\* The instances the program holds: the last split's receiver and result.
Held == {"parent"} \cup (IF nsplits > 0 THEN {"child"} ELSE {})

Instance(on) == IF on = "parent" THEN parent ELSE child

\* on.level_split(selected_level)
LevelSplit(on, selected_level) ==
    /\ pose_pc = "scanned"
    /\ nsplits < MaxSplits
    /\ on \in Held
    /\ LET self == Instance(on)
           made == split(self, level_split_keys(self, selected_level))
       IN  /\ parent' = self
           /\ child' = PoseData(made.data, made.nested_data)
    /\ last_call' = [name |-> "level_split", level |-> selected_level]
    /\ nsplits' = nsplits + 1
    /\ UNCHANGED <<pose_pc, listing, entries, records, decodes, invocations,
                   asked, got, tensorVars, lossVars, netVars, vitVars>>

\* on.txt_split(path) for a manifest of these lines.  np.loadtxt returns a
\* 0-d array for a single line, which the loop cannot iterate (TypeError);
\* a key that self.data lacks raises KeyError.  Either way nothing is
\* returned and nothing has changed.
TxtSplit(on, lines) ==
    /\ pose_pc = "scanned"
    /\ nsplits < MaxSplits
    /\ on \in Held
    /\ Len(lines) # 1
    /\ LET self == Instance(on)
           made == split(self, lines)
       IN  /\ ~made.failed
           /\ parent' = self
           /\ child' = PoseData(made.data, made.nested_data)
    /\ last_call' = [name |-> "txt_split", level |-> 0]
    /\ nsplits' = nsplits + 1
    /\ UNCHANGED <<pose_pc, listing, entries, records, decodes, invocations,
                   asked, got, tensorVars, lossVars, netVars, vitVars>>

\* on[key][component]() through the flat mapping, or
\* on[(level,)][scene][variant][component]() through the nested one.
InvokeLoader(on, nestedPath, key, component) ==
    /\ pose_pc = "scanned"
    /\ SeqSum(invocations) < MaxCalls
    /\ on \in Held
    /\ key \in DOMAIN Instance(on).data.rec
    /\ LET self == Instance(on)
           record == IF nestedPath
                     THEN records[self.nested_data[key[1]][key[2]][key[3]]]
                     ELSE records[self.data.rec[key]]
       IN  /\ component \in DOMAIN record.entry
           /\ entries[record.entry[component]].kind = "loader"
           /\ decodes' = generator(record.entry[component], decodes, invocations)
           /\ invocations' =
                [invocations EXCEPT ![record.entry[component]] = @ + 1]
    /\ UNCHANGED <<pose_pc, listing, entries, records, parent, child,
                   last_call, nsplits, asked, got,
                   tensorVars, lossVars, netVars, vitVars>>

PoseNext ==
    \/ Scan
    \/ \E on \in {"parent", "child"}, level \in Levels : LevelSplit(on, level)
    \/ \E on \in {"parent", "child"}, lines \in Manifests : TxtSplit(on, lines)
    \/ \E on \in {"parent", "child"}, nestedPath \in BOOLEAN,
          file \in DirFiles :
            InvokeLoader(on, nestedPath, file.key, file.tag)

SpecPose == PoseInit /\ [][PoseNext]_vars

-----------------------------------------------------------------------------
(***************************************************************************)
(* Properties of the dataset indexer.                                      *)
(***************************************************************************)
\* The (level, scene, variant) paths to the leaves of a nested mapping.
LeafPaths(nested) ==
    UNION {UNION {{<<l, s, v>> : v \in DOMAIN nested[l][s]} :
                    s \in DOMAIN nested[l]} : l \in DOMAIN nested}

FlatKeys(self) == DOMAIN self.data.rec

\* The entries (component -> entry) of the record a mapping holds for a key.
FlatEntries(self, key) == records[self.data.rec[key]].entry
NestedEntries(self, key) ==
    records[self.nested_data[key[1]][key[2]][key[3]]].entry

\* C5: in every instance made by the scan and any splits, the flat keys are
\* the paths to the nested leaves; their numbers agree, and with len().
C5_FlatKeysAreNestedLeaves ==
    pose_pc = "scanned" =>
        \A on \in Held :
            LET self == Instance(on)
            IN  /\ FlatKeys(self) = LeafPaths(self.nested_data)
                /\ Cardinality(FlatKeys(self)) =
                        Cardinality(LeafPaths(self.nested_data))
                /\ Len(self.keylist) = Cardinality(FlatKeys(self))
                /\ Range(self.keylist) = FlatKeys(self)

\* C5 witness: a split by manifest of a split (the parent holds fewer keys
\* than the scan made records for), holding two scenes.
C5_Witness ==
    /\ pose_pc = "scanned"
    /\ nsplits = 2
    /\ last_call.name = "txt_split"
    /\ 2 * Len(parent.keylist) < Len(records)
    /\ Len(child.keylist) = 2
    /\ Cardinality(DOMAIN child.nested_data[1]) = 2
    /\ FlatKeys(child) = LeafPaths(child.nested_data)

\* The place of a key in a key list.
Place(keylist, key) == CHOOSE i \in DOMAIN keylist : keylist[i] = key

\* C6: level_split(L) returns exactly the parent's keys of level L, in the
\* parent's order, and a nested mapping with no level other than L.
C6_LevelSplitKeepsTheLevel ==
    (pose_pc = "scanned" /\ nsplits > 0 /\ last_call.name = "level_split") =>
        LET L == last_call.level
        IN  /\ FlatKeys(child) = {key \in FlatKeys(parent) : key[1] = L}
            /\ Range(child.keylist) = FlatKeys(child)
            /\ Len(child.keylist) = Cardinality(FlatKeys(child))
            /\ \A i, j \in DOMAIN child.keylist :
                    i < j => Place(parent.keylist, child.keylist[i])
                                < Place(parent.keylist, child.keylist[j])
            /\ DOMAIN child.nested_data \subseteq {L}

\* C6 witness: a level split of three keys that keeps the first and the
\* third and drops the second.
C6_Witness ==
    /\ pose_pc = "scanned"
    /\ nsplits > 0
    /\ last_call.name = "level_split"
    /\ Len(parent.keylist) = 3
    /\ parent.keylist[1][1] = last_call.level
    /\ parent.keylist[2][1] # last_call.level
    /\ parent.keylist[3][1] = last_call.level
    /\ child.keylist = <<parent.keylist[1], parent.keylist[3]>>

\* C9: the scan decodes no image, and every invocation of a loader decodes
\* its file once: a file has been decoded as often as its loader was invoked.
C9_OneDecodePerInvocation ==
    /\ pose_pc # "scanned" => \A f \in DirFiles : decodes[f] = 0
    /\ pose_pc = "scanned" =>
        /\ \A e \in DOMAIN entries :
                decodes[entries[e].filepath] = invocations[e]
        /\ \A f \in DirFiles :
                (\A e \in DOMAIN entries : entries[e].filepath # f)
                    => decodes[f] = 0

\* C9 witness: one loader invoked twice, its file decoded twice.
C9_Witness ==
    /\ pose_pc = "scanned"
    /\ \E e \in DOMAIN entries :
        /\ invocations[e] = 2
        /\ decodes[entries[e].filepath] = 2

\* The entries of every key of the split are the parent's, through the flat
\* and through the nested mapping.
C10_SharedEntries ==
    (pose_pc = "scanned" /\ nsplits > 0) =>
        \A key \in FlatKeys(child) :
            /\ key \in FlatKeys(parent)
            /\ FlatEntries(child, key) = FlatEntries(parent, key)
            /\ NestedEntries(child, key) = FlatEntries(parent, key)
            /\ NestedEntries(child, key) = NestedEntries(parent, key)

\* A split decodes nothing and changes neither its receiver nor an object.
C10_SplitFrame ==
    nsplits' = nsplits + 1 =>
        /\ decodes' = decodes
        /\ invocations' = invocations
        /\ records' = records
        /\ entries' = entries
        /\ parent' \in {parent, child}

\* C10: level_split and txt_split decode no image and leave the parent as it
\* was; every component entry of every key of the returned instance, through
\* the flat or the nested mapping, is the entry the parent holds.
C10_SplitsShareAndLeaveTheParent ==
    [](C10_SharedEntries) /\ [][C10_SplitFrame]_vars

\* C10 witness: a second split, by a manifest that lists the parent's two
\* keys in the other order, one of them a record of two components.
C10_Witness ==
    /\ pose_pc = "scanned"
    /\ nsplits = 2
    /\ last_call.name = "txt_split"
    /\ Len(child.keylist) = 2
    /\ child.keylist = <<parent.keylist[2], parent.keylist[1]>>
    /\ \E key \in FlatKeys(child) :
            Cardinality(DOMAIN FlatEntries(child, key)) = 2
    /\ \A key \in FlatKeys(child) :
            NestedEntries(child, key) = FlatEntries(parent, key)

-----------------------------------------------------------------------------
(***************************************************************************)
(* Python floats.                                                          *)
(*                                                                         *)
(* A float is an IEEE 754 binary64 number.  A positive one is m * 2^e with *)
(* 2^52 <= m < 2^53; m is kept as three limbs <<a, b, c>>,                 *)
(* m = a * Limb^2 + b * Limb + c, with TopLimb <= a < 2 * TopLimb.         *)
(* Products and quotients are rounded to nearest, ties to even, as the     *)
(* hardware rounds them.                                                   *)
(***************************************************************************)
Limb == 262144
TopLimb == 65536

Double(a, b, c, e) == [m |-> <<a, b, c>>, e |-> e]

Zero == Double(0, 0, 0, 0)

IsZero(f) == f.m = <<0, 0, 0>>

\* The next float above a positive float.
Increment(f) ==
    LET a == f.m[1]
        b == f.m[2]
        c == f.m[3]
    IN  IF c + 1 < Limb THEN Double(a, b, c + 1, f.e)
        ELSE IF b + 1 < Limb THEN Double(a, b + 1, 0, f.e)
        ELSE IF a + 1 < 2 * TopLimb THEN Double(a + 1, 0, 0, f.e)
        ELSE Double(TopLimb, 0, 0, f.e + 1)

\* Halves a mantissa of more than 53 bits until it has 53, then rounds.
\* guard is the last bit shifted out, sticky whether one before it was set.
RECURSIVE ShiftRight(_, _, _)
ShiftRight(f, guard, sticky) ==
    LET a == f.m[1]
        b == f.m[2]
        c == f.m[3]
    IN  IF a < 2 * TopLimb
        THEN IF guard = 1 /\ (sticky \/ c % 2 = 1) THEN Increment(f) ELSE f
        ELSE ShiftRight(Double(a \div 2,
                               (b \div 2) + (a % 2) * (Limb \div 2),
                               (c \div 2) + (b % 2) * (Limb \div 2),
                               f.e + 1),
                        c % 2, sticky \/ guard = 1)

\* f * float(k) for an integer 0 <= k < 4096.
FloatTimesInt(f, k) ==
    IF k = 0 \/ IsZero(f) THEN Zero
    ELSE LET c == f.m[3] * k
             b == f.m[2] * k + (c \div Limb)
             a == f.m[1] * k + (b \div Limb)
         IN  ShiftRight(Double(a, b % Limb, c % Limb, f.e), 0, FALSE)

\* Doubles a quotient of fewer than 53 bits, taking its next bits from the
\* remainder r of the division by d, until it has 53, then rounds.
RECURSIVE ShiftLeft(_, _, _)
ShiftLeft(f, r, d) ==
    LET a == f.m[1]
        b == f.m[2]
        c == f.m[3]
        bit == IF 2 * r >= d THEN 1 ELSE 0
        c2 == 2 * c + bit
        b2 == 2 * b + (c2 \div Limb)
        a2 == 2 * a + (b2 \div Limb)
    IN  IF a >= TopLimb
        THEN IF 2 * r > d \/ (2 * r = d /\ c % 2 = 1) THEN Increment(f) ELSE f
        ELSE ShiftLeft(Double(a2, b2 % Limb, c2 % Limb, f.e - 1),
                       2 * r - bit * d, d)

\* f / d for an integer 0 < d < 4096, which Python converts to a float.
FloatOverInt(f, d) ==
    IF IsZero(f) THEN Zero
    ELSE LET a == f.m[1] \div d
             ra == f.m[1] % d
             b == (ra * Limb + f.m[2]) \div d
             rb == (ra * Limb + f.m[2]) % d
             c == (rb * Limb + f.m[3]) \div d
             rc == (rb * Limb + f.m[3]) % d
         IN  ShiftLeft(Double(a, b, c, f.e), rc, d)

\* f < g and f <= g on floats that are zero or positive.
FloatLess(f, g) ==
    IF IsZero(g) THEN FALSE
    ELSE IF IsZero(f) THEN TRUE
    ELSE \/ f.e < g.e
         \/ /\ f.e = g.e
            /\ \/ f.m[1] < g.m[1]
               \/ f.m[1] = g.m[1] /\ f.m[2] < g.m[2]
               \/ f.m[1] = g.m[1] /\ f.m[2] = g.m[2] /\ f.m[3] < g.m[3]

FloatLessEq(f, g) == f = g \/ FloatLess(f, g)

-----------------------------------------------------------------------------
(***************************************************************************)
(* models/xswin.py: XNetSwinTransformer.__init__                           *)
(*                                                                         *)
(* A module is a record of its class, the stage it was built for, the      *)
(* channel count it was constructed with (dim), the channel count it       *)
(* emits (out), its stochastic depth probability and, for a Sequential,    *)
(* the modules it holds.                                                   *)
(***************************************************************************)
Module(type, i_stage, dim, out, sd_prob, modules) ==
    [type |-> type, i_stage |-> i_stage, dim |-> dim, out |-> out,
     sd_prob |-> sd_prob, modules |-> modules]

SwinTransformerBlockV2(i_stage, dim, sd_prob) ==
    Module("SwinTransformerBlockV2", i_stage, dim, dim, sd_prob, <<>>)

PatchMergingV2(i_stage, dim) ==
    Module("PatchMergingV2", i_stage, dim, 2 * dim, Zero, <<>>)

\* The linear expansion doubles dim, the rearrangement quarters it.
PatchExpandingV2(i_stage, dim) ==
    Module("PatchExpandingV2", i_stage, dim, (2 * dim) \div 4, Zero, <<>>)

PointwiseConvolution(i_stage, in_channels, out_channels) ==
    Module("PointwiseConvolution", i_stage, in_channels, out_channels, Zero, <<>>)

SwinResidualCrossAttention(i_stage, embed_dim) ==
    Module("SwinResidualCrossAttention", i_stage, embed_dim, embed_dim, Zero,
           <<>>)

ViTEncoderBlock(hidden_dim) ==
    Module("ViTEncoderBlock", -1, hidden_dim, hidden_dim, Zero, <<>>)

\* nn.Sequential(*stage)
Sequential(i_stage, stage) ==
    Module("Sequential", i_stage,
           IF stage = <<>> THEN 0 ELSE stage[1].dim,
           IF stage = <<>> THEN 0 ELSE stage[Len(stage)].out,
           Zero, stage)

total_stage_blocks(depths) == SeqSum(depths)

\* sd_prob = stochastic_depth_prob * float(stage_block_id)
\*              / (2*total_stage_blocks - 1), of xswin.py.
xswin_sd_prob(stochastic_depth_prob, stage_block_id, depths) ==
    FloatOverInt(FloatTimesInt(stochastic_depth_prob, stage_block_id),
                 2 * total_stage_blocks(depths) - 1)

\* The encoder loop from stage i_stage on (0-based); stage_block_id is the
\* counter of the dropout scheduler.
RECURSIVE encoder_loop(_, _, _, _)
encoder_loop(cfg, i_stage, stage_block_id, acc) ==
    IF i_stage >= Len(cfg.depths)
    THEN [modules |-> acc, stage_block_id |-> stage_block_id]
    ELSE
      LET depth == cfg.depths[i_stage + 1]
          dim == cfg.embed_dim * 2^i_stage
          stage == [i_layer \in 1..depth |->
                      SwinTransformerBlockV2(i_stage, dim,
                          xswin_sd_prob(cfg.stochastic_depth_prob,
                                        stage_block_id + i_layer - 1,
                                        cfg.depths))]
          merging == IF i_stage < Len(cfg.depths) - 1 \/ cfg.final_downsample
                     THEN <<PatchMergingV2(i_stage, dim)>> ELSE <<>>
      IN  encoder_loop(cfg, i_stage + 1, stage_block_id + depth,
                       acc \o <<Sequential(i_stage, stage)>> \o merging)

\* current_features without the doubling of the final downsampling.
CurrentFeaturesOfLastStage(cfg) == cfg.embed_dim * 2^(Len(cfg.depths) - 1)

current_features(cfg) ==
    cfg.embed_dim
        * 2^(Len(cfg.depths) - (IF cfg.final_downsample THEN 0 ELSE 1))

Min(a, b) == IF a < b THEN a ELSE b

\* for _ in range(min(1, middle_stages)): self.middle.append(...)
middle_blocks(cfg) ==
    [k \in 1..Min(1, cfg.middle_stages) |->
        ViTEncoderBlock(current_features(cfg))]

\* The decoder loop from stage i_stage down to 0.
RECURSIVE decoder_loop(_, _, _, _)
decoder_loop(cfg, i_stage, stage_block_id, acc) ==
    IF i_stage < 0
    THEN [modules |-> acc, stage_block_id |-> stage_block_id]
    ELSE
      LET depth == cfg.depths[i_stage + 1]
          dim == cfg.embed_dim * 2^i_stage
          expanding == IF i_stage < Len(cfg.depths) - 1 \/ cfg.final_downsample
                       THEN <<PatchExpandingV2(i_stage, 2 * dim)>> ELSE <<>>
          attention == IF cfg.cross_attention_residual
                       THEN <<SwinResidualCrossAttention(i_stage, dim)>>
                       ELSE <<>>
          block(i_layer) ==
              SwinTransformerBlockV2(i_stage,
                  dim * (1 + (IF i_layer = 0 THEN 1 ELSE 0)),
                  xswin_sd_prob(cfg.stochastic_depth_prob,
                                stage_block_id + i_layer, cfg.depths))
          stage == IF depth = 0 THEN <<>>
                   ELSE <<block(0), PointwiseConvolution(i_stage, 2 * dim, dim)>>
                        \o [i_layer \in 1..(depth - 1) |-> block(i_layer)]
      IN  decoder_loop(cfg, i_stage - 1, stage_block_id + depth,
                       acc \o expanding \o attention
                           \o <<Sequential(i_stage, stage)>>)

\* __init__ with the scheduler's counter set back to 0 before the decoder.
XNetInitCounterReset(cfg) ==
    LET enc == encoder_loop(cfg, 0, 0, <<>>)
        dec == decoder_loop(cfg, Len(cfg.depths) - 1, 0, <<>>)
    IN  [encoder |-> enc.modules, middle |-> middle_blocks(cfg),
         decoder |-> dec.modules]

\* XNetSwinTransformer.__init__: the three module lists.
XNetSwinTransformer_init(cfg) ==
    LET enc == encoder_loop(cfg, 0, 0, <<>>)
        dec == decoder_loop(cfg, Len(cfg.depths) - 1, enc.stage_block_id, <<>>)
    IN  [encoder |-> enc.modules, middle |-> middle_blocks(cfg),
         decoder |-> dec.modules]

-----------------------------------------------------------------------------
(***************************************************************************)
(* What the modules do to the shape of a feature map.  A feature map in    *)
(* the network is the record of its shape [B, H, W, C]; a call that raises *)
(* is the record of its exception.                                         *)
(***************************************************************************)
Feature(shape) == [kind |-> "tensor", shape |-> shape]

Fail(exception) == [kind |-> exception, shape |-> <<>>]

Channels(f) == f.shape[Len(f.shape)]

\* The shape _patch_expanding_pad returns on a tensor of this shape.
patch_expanding_pad_shape(shape) ==
    LET H_HALF == shape[2]
        W_HALF == shape[3]
        C_QUAD == shape[4]
        C == C_QUAD \div 4
        pad_c == (4 - (C_QUAD % 4)) % 4
    IN  IF Prod(shape) + shape[1] * H_HALF * W_HALF * pad_c
            # shape[1] * H_HALF * W_HALF * 2 * 2 * C
        THEN Fail("RuntimeError")
        ELSE Feature(<<shape[1], H_HALF * 2, W_HALF * 2, C>>)

\* The shape _extract_windows returns on a tensor of this shape.
extract_windows_shape(shape, window_height, window_width) ==
    IF window_height > shape[2] \/ window_width > shape[3]
    THEN Fail("RuntimeError")
    ELSE Feature(<<shape[1],
                   ((shape[2] - window_height) \div window_height) + 1,
                   ((shape[3] - window_width) \div window_width) + 1,
                   window_height * window_width, shape[4]>>)

\* The shape SwinResidualCrossAttention.forward returns, or what it raises.
cross_attention_forward_shape(x_shape, residual_shape, window_height, window_width) ==
    LET x_context == extract_windows_shape(x_shape, window_height, window_width)
        residual_context ==
            extract_windows_shape(residual_shape, window_height, window_width)
    IN  IF ~IsTensor(x_context) THEN x_context
        ELSE IF ~IsTensor(residual_context) THEN residual_context
        ELSE IF x_context.shape # residual_context.shape
             THEN Fail("AssertionError")
        ELSE Feature(<<residual_context.shape[1],
                       residual_context.shape[2] * window_height,
                       residual_context.shape[3] * window_width,
                       residual_context.shape[5]>>)

\* list[i] of Python: a negative index counts from the end.
InRange(list, i) == -Len(list) <= i /\ i < Len(list)

GetModule(list, i) == list[(IF i < 0 THEN i + Len(list) ELSE i) + 1]

\* A module other than a Sequential applied to a feature map.  Its linear
\* layers and norms raise on a channel count other than the one they were
\* constructed with.
ApplyModule(module, f) ==
    IF ~IsTensor(f) THEN f
    ELSE IF module.type = "SwinResidualCrossAttention" THEN Fail("TypeError")
    ELSE IF Channels(f) # module.dim THEN Fail("RuntimeError")
    ELSE
      CASE module.type = "PatchMergingV2" ->
             Feature(<<f.shape[1], (f.shape[2] + 1) \div 2,
                       (f.shape[3] + 1) \div 2, 2 * module.dim>>)
        [] module.type = "PatchExpandingV2" ->
             patch_expanding_pad_shape(
                 <<f.shape[1], f.shape[2], f.shape[3], 2 * module.dim>>)
        [] module.type = "PointwiseConvolution" ->
             Feature([f.shape EXCEPT ![Len(f.shape)] = module.out])
        [] OTHER -> f

\* nn.Sequential.forward: the modules one after the other.
RECURSIVE ApplySequential(_, _)
ApplySequential(modules, f) ==
    IF modules = <<>> THEN f
    ELSE ApplySequential(Tail(modules), ApplyModule(Head(modules), f))

Apply(module, f) ==
    IF module.type = "Sequential" THEN ApplySequential(module.modules, f)
    ELSE ApplyModule(module, f)

\* SwinResidualCrossAttention.forward(x, residual) in the network: the
\* attention layer asserts the embedding dimension it was constructed with.
ApplyCrossAttention(module, f, residual, window_size_) ==
    LET attended == cross_attention_forward_shape(
                        f.shape, residual.shape,
                        window_size_[1], window_size_[2])
    IN  IF ~IsTensor(f) THEN f
        ELSE IF module.type # "SwinResidualCrossAttention" THEN Fail("TypeError")
        ELSE IF ~IsTensor(attended) THEN attended
        ELSE IF Channels(f) # module.dim THEN Fail("AssertionError")
        ELSE attended

\* torch.cat((a, b), dim=-1)
Cat(a, b) ==
    IF ~IsTensor(a) THEN a
    ELSE IF ~IsTensor(b) THEN b
    ELSE IF SubSeq(a.shape, 1, Len(a.shape) - 1) # SubSeq(b.shape, 1, Len(b.shape) - 1)
         THEN Fail("RuntimeError")
    ELSE Feature([a.shape EXCEPT ![Len(a.shape)] = Channels(a) + Channels(b)])

\* One module of a list applied during forward: the list, the index used,
\* what forward used it as, the module, the channel counts of x and of the
\* residual entering it, and the index of the residual used with it.
Event(list, index, role, module, c_in, c_res, i_residual) ==
    [list |-> list, index |-> index, role |-> role, module |-> module,
     c_in |-> c_in, c_res |-> c_res, i_residual |-> i_residual]

\* self.<list>[i](f): IndexError when the list has no index i.
ApplyAt(list, i, f) ==
    IF ~IsTensor(f) THEN f
    ELSE IF ~InRange(list, i) THEN Fail("IndexError")
    ELSE Apply(GetModule(list, i), f)

-----------------------------------------------------------------------------
(***************************************************************************)
(* models/xswin.py: XNetSwinTransformer.forward                            *)
(***************************************************************************)
\* int(b) of a bool.
int(b) == IF b THEN 1 ELSE 0

\* One iteration of the encoder loop at index i: the stage, the residual
\* it leaves, and the downsampling.
xnet_encoder_iteration(cfg, encoder_, i, f) ==
    LET staged == ApplyAt(encoder_, i, f)
        down == i + 1 < Len(encoder_) - 1 \/ cfg.final_downsample
        merged == IF down THEN ApplyAt(encoder_, i + 1, staged) ELSE staged
    IN  [x |-> merged,
         residual |-> IF IsTensor(staged) THEN <<staged>> ELSE <<>>,
         events |->
            <<Event("encoder", i, "stage", GetModule(encoder_, i),
                    Channels(f), 0, -1)>>
            \o (IF down /\ IsTensor(staged) /\ InRange(encoder_, i + 1)
                THEN <<Event("encoder", i + 1, "downsample",
                             GetModule(encoder_, i + 1), Channels(staged),
                             0, -1)>>
                ELSE <<>>)]

\* The second range of the zip of the decoder loop: its start and its step,
\* here with the step of a decoder without cross attention.
DecoderRangeStepTwo(cfg) ==
    [start |-> 0 - int(~cfg.final_downsample), step |-> 2]

\* range(0 - int(not self.final_downsample), len(self.decoder),
\*       2 + int(self.cross_attention_residual)): its start and its step.
decoder_range(cfg) ==
    [start |-> 0 - int(~cfg.final_downsample),
     step |-> 2 + int(cfg.cross_attention_residual)]

\* The number of the iteration in which the decoder loop is at index i, and
\* the index of the residual zipped with it.
decoder_iteration_number(cfg, i) ==
    (i - decoder_range(cfg).start) \div decoder_range(cfg).step

i_residual_at(cfg, residuals_, i) ==
    Len(residuals_) - 1 - decoder_iteration_number(cfg, i)

\* One iteration of the decoder loop at index i.
xnet_decoder_iteration(cfg, decoder_, residuals_, i, f) ==
    LET i_residual == i_residual_at(cfg, residuals_, i)
        cross == cfg.cross_attention_residual
        up == i > 0 \/ cfg.final_downsample
        expanded == IF up THEN ApplyAt(decoder_, i, f) ELSE f
        residual == residuals_[i_residual + 1]
        attended ==
            IF ~cross THEN residual
            ELSE IF ~IsTensor(expanded) THEN expanded
            ELSE IF ~InRange(decoder_, i + 1) THEN Fail("IndexError")
            ELSE ApplyCrossAttention(GetModule(decoder_, i + 1), expanded,
                                     residual, cfg.window_size)
        stacked == Cat(expanded, attended)
        i_stage == i + 1 + int(cross)
    IN  [x |-> ApplyAt(decoder_, i_stage, stacked),
         events |->
            (IF up /\ InRange(decoder_, i)
             THEN <<Event("decoder", i, "upsample", GetModule(decoder_, i),
                          Channels(f), 0, i_residual)>>
             ELSE <<>>)
            \o (IF cross /\ IsTensor(expanded) /\ InRange(decoder_, i + 1)
                THEN <<Event("decoder", i + 1, "cross_attention",
                             GetModule(decoder_, i + 1), Channels(expanded),
                             Channels(residual), i_residual)>>
                ELSE <<>>)
            \o (IF IsTensor(stacked) /\ InRange(decoder_, i_stage)
                THEN <<Event("decoder", i_stage, "stage",
                             GetModule(decoder_, i_stage), Channels(stacked),
                             0, i_residual)>>
                ELSE <<>>)]

\* self.unpatching: its transposed convolution takes embed_dim channels.
unpatching(cfg) ==
    Module("ConvTranspose2d", -1, cfg.embed_dim, cfg.embed_dim, Zero, <<>>)

\* The tail of forward: unpatching, the concatenation with conv_residual
\* along the channels, smooth_conv_out, head and the squeeze of one class.
xnet_forward_tail(cfg, conv_residual_, f) ==
    LET unpatched == ApplyModule(unpatching(cfg), f)
    IN  IF ~IsTensor(unpatched) THEN unpatched
        ELSE IF <<unpatched.shape[2], unpatched.shape[3]>> # conv_residual_
             THEN Fail("RuntimeError")
        ELSE Feature(<<unpatched.shape[1], unpatched.shape[2],
                       unpatched.shape[3]>>)

-----------------------------------------------------------------------------
(***************************************************************************)
(* The XNetSwinTransformer: its construction and one forward pass.  The    *)
(* heads of a configuration divide its channel counts; an image is a       *)
(* whole number of patches high and wide, and sizes are counted in patches.*)
(***************************************************************************)
\* The depth a stage may be given.
DepthChoices == {0, 1, 2}

\* stochastic_depth_prob: 0.0, the default 0.1, and 0.5.
StochasticDepthProbs ==
    {Zero, Double(104857, 157286, 104858, -56), Double(65536, 0, 0, -53)}

EmbedDims == {3}

WindowSizes == {<<2, 2>>}

\* The height and width of the patch grid of an input image.
Grids == {<<8, 8>>, <<4, 4>>, <<3, 2>>}

DepthLists == UNION {[1..n -> DepthChoices] : n \in 1..MaxStages}

Config(cls, depths, embed_dim, window_size_, stochastic_depth_prob, middle_stages, final_downsample, cross_attention_residual) ==
    [cls |-> cls, depths |-> depths, embed_dim |-> embed_dim,
     window_size |-> window_size_,
     stochastic_depth_prob |-> stochastic_depth_prob,
     middle_stages |-> middle_stages, final_downsample |-> final_downsample,
     cross_attention_residual |-> cross_attention_residual]

XNetConfigs ==
    {Config("XNetSwinTransformer", depths, embed_dim, w, sd, middle_stages,
            final_downsample, cross_attention_residual) :
        depths \in DepthLists, embed_dim \in EmbedDims, w \in WindowSizes,
        sd \in StochasticDepthProbs, middle_stages \in 0..MaxMiddle,
        final_downsample \in BOOLEAN, cross_attention_residual \in BOOLEAN}

NetNew ==
    /\ net_pc = "new"
    /\ encoder = <<>>
    /\ middle = <<>>
    /\ decoder = <<>>
    /\ x_net = Fail("none")
    /\ conv_residual = <<>>
    /\ residuals = <<>>
    /\ i_loop = 0
    /\ trace = <<>>
    /\ TensorOff
    /\ LossOff
    /\ PoseOff
    /\ ViTOff

XNetInit ==
    /\ config \in XNetConfigs
    /\ NetNew

\* XNetSwinTransformer(...)
XNetConstruct ==
    /\ net_pc = "new"
    /\ config.cls = "XNetSwinTransformer"
    /\ net_pc' = "built"
    /\ LET built == XNetSwinTransformer_init(config)
       IN  /\ encoder' = built.encoder
           /\ middle' = built.middle
           /\ decoder' = built.decoder
    /\ UNCHANGED <<config, x_net, conv_residual, residuals, i_loop, trace,
                   tensorVars, lossVars, poseVars, vitVars>>

\* forward(x) up to the encoder loop: smooth_conv_in and patching, on an
\* image of grid[1] by grid[2] patches.
XNetPatching(grid) ==
    /\ net_pc = "built"
    /\ config.cls = "XNetSwinTransformer"
    /\ net_pc' = "encoder"
    /\ conv_residual' = grid
    /\ x_net' = Feature(<<1, grid[1], grid[2], config.embed_dim>>)
    /\ residuals' = <<>>
    /\ i_loop' = 0
    /\ trace' = <<>>
    /\ UNCHANGED <<config, encoder, middle, decoder,
                   tensorVars, lossVars, poseVars, vitVars>>

\* One iteration of "for i in range(0, len(self.encoder), 2)".
XNetEncoderStep ==
    /\ net_pc = "encoder"
    /\ config.cls = "XNetSwinTransformer"
    /\ i_loop < Len(encoder)
    /\ LET it == xnet_encoder_iteration(config, encoder, i_loop, x_net)
       IN  /\ x_net' = it.x
           /\ residuals' = residuals \o it.residual
           /\ trace' = trace \o it.events
           /\ net_pc' = IF IsTensor(it.x) THEN "encoder" ELSE "failed"
    /\ i_loop' = i_loop + 2
    /\ UNCHANGED <<config, encoder, middle, decoder, conv_residual,
                   tensorVars, lossVars, poseVars, vitVars>>

\* The middle: the view to [B, H*W, C], self.middle, and the view back.
XNetMiddle ==
    /\ net_pc = "encoder"
    /\ config.cls = "XNetSwinTransformer"
    /\ i_loop >= Len(encoder)
    /\ LET flat == Feature(<<x_net.shape[1], x_net.shape[2] * x_net.shape[3],
                             x_net.shape[4]>>)
           out == ApplySequential(middle, flat)
       IN  /\ x_net' = IF IsTensor(out) THEN x_net ELSE out
           /\ net_pc' = IF IsTensor(out) THEN "decoder" ELSE "failed"
           /\ trace' = trace \o
                [k \in 1..Len(middle) |->
                    Event("middle", k - 1, "block", middle[k],
                          Channels(flat), 0, -1)]
    /\ i_loop' = decoder_range(config).start
    /\ UNCHANGED <<config, encoder, middle, decoder, conv_residual, residuals,
                   tensorVars, lossVars, poseVars, vitVars>>

\* Whether the zip of the decoder loop yields another pair at index i_loop.
DecoderLoopRuns ==
    /\ i_loop < Len(decoder)
    /\ i_residual_at(config, residuals, i_loop) >= 0

\* One iteration of the decoder loop.
XNetDecoderStep ==
    /\ net_pc = "decoder"
    /\ config.cls = "XNetSwinTransformer"
    /\ DecoderLoopRuns
    /\ LET it == xnet_decoder_iteration(config, decoder, residuals, i_loop,
                                        x_net)
       IN  /\ x_net' = it.x
           /\ trace' = trace \o it.events
           /\ net_pc' = IF IsTensor(it.x) THEN "decoder" ELSE "failed"
    /\ i_loop' = i_loop + decoder_range(config).step
    /\ UNCHANGED <<config, encoder, middle, decoder, conv_residual, residuals,
                   tensorVars, lossVars, poseVars, vitVars>>

\* forward after the decoder loop, to its return.
XNetHead ==
    /\ net_pc = "decoder"
    /\ config.cls = "XNetSwinTransformer"
    /\ ~DecoderLoopRuns
    /\ x_net' = xnet_forward_tail(config, conv_residual, x_net)
    /\ net_pc' = IF IsTensor(x_net') THEN "done" ELSE "failed"
    /\ trace' = Append(trace, Event("unpatching", 0, "unpatching",
                                    unpatching(config), Channels(x_net), 0, -1))
    /\ UNCHANGED <<config, encoder, middle, decoder, conv_residual, residuals,
                   i_loop, tensorVars, lossVars, poseVars, vitVars>>

XNetNext ==
    \/ XNetConstruct
    \/ \E grid \in Grids : XNetPatching(grid)
    \/ XNetEncoderStep
    \/ XNetMiddle
    \/ XNetDecoderStep
    \/ XNetHead

SpecXNet == XNetInit /\ [][XNetNext]_vars

-----------------------------------------------------------------------------
(***************************************************************************)
(* Properties of the XNetSwinTransformer.                                  *)
(***************************************************************************)
IsXNet == net_pc # "off" /\ config.cls = "XNetSwinTransformer"

Built == IsXNet /\ net_pc # "new"

NStages == Len(config.depths)

TotalBlocks == total_stage_blocks(config.depths)

\* The attention blocks of a module list, in the order of the list.
RECURSIVE BlocksOf(_)
BlocksOf(list) ==
    IF list = <<>> THEN <<>>
    ELSE SelectSeq(Head(list).modules,
                   LAMBDA m : m.type = "SwinTransformerBlockV2")
         \o BlocksOf(Tail(list))

\* The attention blocks in construction order: encoder, then decoder.
AllBlocks == BlocksOf(encoder) \o BlocksOf(decoder)

\* The probability of block k (numbered from 0).
ProbOf(k) == AllBlocks[k + 1].sd_prob

MaxProb == config.stochastic_depth_prob

\* The schedule without its end point: 2T blocks, block k holding
\* stochastic_depth_prob * k / (2T - 1) as Python computes it, the first
\* holding 0, and the probabilities growing with k.
C12_Schedule ==
    /\ Len(BlocksOf(encoder)) = TotalBlocks
    /\ Len(BlocksOf(decoder)) = TotalBlocks
    /\ \A k \in 0..(2 * TotalBlocks - 1) :
            ProbOf(k) = xswin_sd_prob(MaxProb, k, config.depths)
    /\ ProbOf(0) = Zero
    /\ \A k \in 0..(2 * TotalBlocks - 2) :
            /\ FloatLessEq(ProbOf(k), ProbOf(k + 1))
            /\ ~IsZero(MaxProb) => FloatLess(ProbOf(k), ProbOf(k + 1))

\* Two floats that are equal or next to each other.
WithinOneUlp(f, g) == f = g \/ Increment(f) = g \/ Increment(g) = f

\* C12 (as stated): with T = sum(depths) >= 1 the 2T attention blocks, in
\* construction order with one counter, hold stochastic_depth_prob * k /
\* (2T - 1): 0 for the first, growing with k, and exactly
\* stochastic_depth_prob for the last decoder block.
C12_ScheduleEndsExactlyAtMax ==
    (Built /\ TotalBlocks >= 1) =>
        /\ C12_Schedule
        /\ ProbOf(2 * TotalBlocks - 1) = MaxProb

\* C12 (amended): as stated, but the last decoder block holds the float
\* (stochastic_depth_prob * (2T - 1)) / (2T - 1), which is
\* stochastic_depth_prob or the float next to it: it is exactly
\* stochastic_depth_prob when T = 1 and when stochastic_depth_prob is 0 or
\* 0.5, and is not for the default 0.1 with T = 2.
C12_ScheduleEndsWithinOneUlpOfMax ==
    (Built /\ TotalBlocks >= 1) =>
        /\ C12_Schedule
        /\ WithinOneUlp(ProbOf(2 * TotalBlocks - 1), MaxProb)
        /\ (TotalBlocks = 1 \/ MaxProb \in {Zero, Double(65536, 0, 0, -53)})
                => ProbOf(2 * TotalBlocks - 1) = MaxProb
        /\ (TotalBlocks = 2 /\ MaxProb = Double(104857, 157286, 104858, -56))
                => ProbOf(2 * TotalBlocks - 1) = Increment(MaxProb)

\* C12 witness: a network of three stages and five blocks built with the
\* default probability, whose first decoder block continues the count.
C12_Witness ==
    /\ Built
    /\ NStages = 3
    /\ TotalBlocks = 5
    /\ MaxProb = Double(104857, 157286, 104858, -56)
    /\ ProbOf(5) = xswin_sd_prob(MaxProb, 5, config.depths)
    /\ FloatLess(ProbOf(4), ProbOf(5))
    /\ ProbOf(9) = MaxProb

\* The events of the trace on one module list, and those of one role.
EventsOn(list) == SelectSeq(trace, LAMBDA e : e.list = list)

EventsAs(list, role) ==
    SelectSeq(trace, LAMBDA e : e.list = list /\ e.role = role)

\* The class of module each role of the decoder loop is meant to select.
ClassOfRole(role) ==
    CASE role = "upsample" -> "PatchExpandingV2"
      [] role = "cross_attention" -> "SwinResidualCrossAttention"
      [] role = "stage" -> "Sequential"
      [] role = "downsample" -> "PatchMergingV2"

\* The encoder loop is over: forward is in or past the decoder loop.
PastEncoder == IsXNet /\ net_pc \in {"decoder", "done"}

\* h halved k times, rounding up, as patch merging halves a side.
RECURSIVE Halved(_, _)
Halved(h, k) == IF k = 0 THEN h ELSE Halved((h + 1) \div 2, k - 1)

\* The residuals cached: one per encoder stage, the output of the stage
\* before its downsampling.
C13_Residuals ==
    PastEncoder =>
        /\ Len(residuals) = NStages
        /\ Len(EventsAs("encoder", "stage")) = NStages
        /\ \A k \in 0..(NStages - 1) :
            /\ EventsAs("encoder", "stage")[k + 1].index = 2 * k
            /\ EventsAs("encoder", "stage")[k + 1].module.type = "Sequential"
            /\ EventsAs("encoder", "stage")[k + 1].module.i_stage = k
            /\ residuals[k + 1].shape[2] = Halved(conv_residual[1], k)
            /\ residuals[k + 1].shape[3] = Halved(conv_residual[2], k)

\* Every module the decoder loop has selected: its index is one of the
\* list, it is of the class of its role and was built for the stage of the
\* residual used with it; upsampling is left out in the first iteration
\* without final downsampling, and only there.
C13_DecoderSelections ==
    IsXNet =>
        /\ x_net.kind \notin {"IndexError", "TypeError"}
        /\ \A k \in DOMAIN trace :
            trace[k].list = "decoder" =>
                /\ 0 <= trace[k].index /\ trace[k].index < Len(decoder)
                /\ trace[k].module = decoder[trace[k].index + 1]
                /\ trace[k].module.type = ClassOfRole(trace[k].role)
                /\ trace[k].i_residual \in 0..(NStages - 1)
                /\ trace[k].module.i_stage = trace[k].i_residual
                /\ (\E u \in DOMAIN trace :
                        /\ trace[u].list = "decoder"
                        /\ trace[u].role = "upsample"
                        /\ trace[u].i_residual = trace[k].i_residual)
                   <=> (trace[k].i_residual < NStages - 1
                            \/ config.final_downsample)
                /\ (trace[k].role = "stage" /\ config.cross_attention_residual)
                    => /\ k > 1
                       /\ trace[k - 1].list = "decoder"
                       /\ trace[k - 1].role = "cross_attention"
                       /\ trace[k - 1].i_residual = trace[k].i_residual
                /\ trace[k].role = "cross_attention"
                    => config.cross_attention_residual

\* Iteration j of the decoder loop uses residual n-1-j, and a forward that
\* returns has run n iterations.
C13_DecoderIterations ==
    IsXNet =>
        /\ \A j \in DOMAIN EventsAs("decoder", "stage") :
                EventsAs("decoder", "stage")[j].i_residual = NStages - j
        /\ net_pc = "decoder" =>
                Len(EventsAs("decoder", "stage"))
                    = decoder_iteration_number(config, i_loop)
        /\ net_pc = "done" =>
            /\ Len(EventsAs("decoder", "stage")) = NStages
            /\ decoder_iteration_number(config, i_loop) = NStages

\* C13: forward caches n = len(depths) residuals, one per encoder stage and
\* taken before the stage's downsampling; its decoder loop runs n iterations,
\* iteration j with residual n-1-j; every index into self.decoder is within
\* bounds and selects the PatchExpandingV2, the SwinResidualCrossAttention
\* and the block sequence built for stage n-1-j; upsampling is skipped only
\* in the first iteration when final_downsample is false.
C13_DecoderMirrorsEncoder ==
    /\ C13_Residuals
    /\ C13_DecoderSelections
    /\ C13_DecoderIterations

\* C13 witness: a forward that returned from a network of three stages
\* without final downsampling and with cross attention: three residuals, no
\* upsampling in the first of three decoder iterations.
C13_Witness ==
    /\ IsXNet
    /\ net_pc = "done"
    /\ NStages = 3
    /\ ~config.final_downsample
    /\ config.cross_attention_residual
    /\ Len(residuals) = 3
    /\ Len(EventsAs("decoder", "upsample")) = 2
    /\ Len(EventsAs("decoder", "cross_attention")) = 3
    /\ Len(EventsAs("decoder", "stage")) = 3
    /\ EventsAs("decoder", "stage")[1].index = 1
    /\ EventsAs("decoder", "stage")[3].i_residual = 0

\* embed_dim * 2^i_stage
StageDim(i_stage) == config.embed_dim * 2^i_stage

\* Inside a block sequence every module emits what the next one takes.
Chained(modules) ==
    \A k \in 1..(Len(modules) - 1) : modules[k].out = modules[k + 1].dim

\* The channel count entering the module of an event is the one the claim
\* names for it, and the one the module was constructed with.
ChannelsAsConstructed(e) ==
    LET i == e.module.i_stage
    IN  CASE e.list = "encoder" /\ e.role = "stage" ->
                /\ e.c_in = StageDim(e.index \div 2)
                /\ e.module.dim = e.c_in
                /\ e.module.out = e.c_in
                /\ Chained(e.module.modules)
          [] e.list = "encoder" /\ e.role = "downsample" ->
                /\ e.c_in = StageDim((e.index - 1) \div 2)
                /\ e.module.dim = e.c_in
          [] e.list = "middle" ->
                /\ e.c_in = config.embed_dim
                        * 2^(NStages - int(~config.final_downsample))
                /\ e.module.dim = e.c_in
          [] e.list = "decoder" /\ e.role = "upsample" ->
                /\ e.c_in = 2 * StageDim(i)
                /\ e.module.dim = e.c_in
                /\ e.module.out = StageDim(i)
          [] e.list = "decoder" /\ e.role = "cross_attention" ->
                /\ e.c_in = StageDim(i)
                /\ e.c_res = StageDim(i)
                /\ e.module.dim = e.c_in
          [] e.list = "decoder" /\ e.role = "stage" ->
                /\ e.c_in = 2 * StageDim(i)
                /\ e.module.modules[1].dim = e.c_in
                /\ e.module.out = StageDim(i)
                /\ Chained(e.module.modules)
          [] e.list = "unpatching" ->
                /\ e.c_in = config.embed_dim
                /\ e.module.dim = e.c_in

AllDepthsPositive == \A k \in DOMAIN config.depths : config.depths[k] >= 1

C17_MiddleHoldsMiddleStagesBlocks ==
    /\ Built => /\ Len(middle) = config.middle_stages
                /\ \A k \in DOMAIN middle : middle[k].type = "ViTEncoderBlock"
    /\ PastEncoder =>
            /\ Len(EventsOn("middle")) = config.middle_stages
            /\ \A k \in DOMAIN EventsOn("middle") :
                    EventsOn("middle")[k].module = middle[k]

-----------------------------------------------------------------------------
(***************************************************************************)
(* models/swin.py: SwinTransformer                                         *)
(***************************************************************************)
\* sd_prob = stochastic_depth_prob * float(stage_block_id)
\*              / (total_stage_blocks - 1), of swin.py.
swin_sd_prob(stochastic_depth_prob, stage_block_id, depths) ==
    FloatOverInt(FloatTimesInt(stochastic_depth_prob, stage_block_id),
                 total_stage_blocks(depths) - 1)

\* The loop of __init__ over the stages, from stage i_stage on.
RECURSIVE swin_encoder_loop(_, _, _, _)
swin_encoder_loop(cfg, i_stage, stage_block_id, acc) ==
    IF i_stage >= Len(cfg.depths) THEN acc
    ELSE
      LET depth == cfg.depths[i_stage + 1]
          dim == cfg.embed_dim * 2^i_stage
          stage == [i_layer \in 1..depth |->
                      SwinTransformerBlockV2(i_stage, dim,
                          swin_sd_prob(cfg.stochastic_depth_prob,
                                       stage_block_id + i_layer - 1,
                                       cfg.depths))]
          merging == IF i_stage < Len(cfg.depths) - 1
                     THEN <<PatchMergingV2(i_stage, dim)>> ELSE <<>>
      IN  swin_encoder_loop(cfg, i_stage + 1, stage_block_id + depth,
                            acc \o <<Sequential(i_stage, stage)>> \o merging)

\* The one block of a network of one block divides by total_stage_blocks - 1,
\* which is 0.
swin_init_raises(cfg) == total_stage_blocks(cfg.depths) = 1

num_features(cfg) == cfg.embed_dim * 2^(Len(cfg.depths) - 1)

\* self.norm = norm_layer(num_features)
swin_norm(cfg) ==
    Module("LayerNorm", -1, num_features(cfg), num_features(cfg), Zero, <<>>)

\* One iteration of "for i in range(1, len(self.encoder), 2)".
swin_encoder_iteration(encoder_, i, f) ==
    LET staged == ApplyAt(encoder_, i - 1, f)
    IN  [x |-> ApplyAt(encoder_, i, staged),
         events |->
            <<Event("encoder", i - 1, "stage", GetModule(encoder_, i - 1),
                    Channels(f), 0, -1)>>
            \o (IF IsTensor(staged)
                THEN <<Event("encoder", i, "downsample", GetModule(encoder_, i),
                             Channels(staged), 0, -1)>>
                ELSE <<>>)]

\* The tail of forward: norm, permute, avgpool, flatten and head.
swin_forward_tail(cfg, f) ==
    LET normed == ApplyModule(swin_norm(cfg), f)
    IN  IF ~IsTensor(normed) THEN normed
        ELSE Feature(<<normed.shape[1], 1>>)

SwinConfigs ==
    {Config("SwinTransformer", depths, embed_dim, w, sd, 0, FALSE, FALSE) :
        depths \in DepthLists, embed_dim \in EmbedDims, w \in WindowSizes,
        sd \in StochasticDepthProbs}

SwinInit ==
    /\ config \in SwinConfigs
    /\ NetNew

\* SwinTransformer(...)
SwinConstruct ==
    /\ net_pc = "new"
    /\ config.cls = "SwinTransformer"
    /\ IF swin_init_raises(config)
       THEN /\ net_pc' = "failed"
            /\ x_net' = Fail("ZeroDivisionError")
            /\ UNCHANGED encoder
       ELSE /\ net_pc' = "built"
            /\ encoder' = swin_encoder_loop(config, 0, 0, <<>>)
            /\ UNCHANGED x_net
    /\ UNCHANGED <<config, middle, decoder, conv_residual, residuals, i_loop,
                   trace, tensorVars, lossVars, poseVars, vitVars>>

\* forward(x) up to the loop: patching, on an image of grid[1] by grid[2]
\* patches.
SwinPatching(grid) ==
    /\ net_pc = "built"
    /\ config.cls = "SwinTransformer"
    /\ net_pc' = "encoder"
    /\ x_net' = Feature(<<1, grid[1], grid[2], config.embed_dim>>)
    /\ i_loop' = 1
    /\ trace' = <<>>
    /\ UNCHANGED <<config, encoder, middle, decoder, conv_residual, residuals,
                   tensorVars, lossVars, poseVars, vitVars>>

\* One iteration of the loop of forward.
SwinEncoderStep ==
    /\ net_pc = "encoder"
    /\ config.cls = "SwinTransformer"
    /\ i_loop < Len(encoder)
    /\ LET it == swin_encoder_iteration(encoder, i_loop, x_net)
       IN  /\ x_net' = it.x
           /\ trace' = trace \o it.events
           /\ net_pc' = IF IsTensor(it.x) THEN "encoder" ELSE "failed"
    /\ i_loop' = i_loop + 2
    /\ UNCHANGED <<config, encoder, middle, decoder, conv_residual, residuals,
                   tensorVars, lossVars, poseVars, vitVars>>

\* forward after the loop, to its return.
SwinHead ==
    /\ net_pc = "encoder"
    /\ config.cls = "SwinTransformer"
    /\ i_loop >= Len(encoder)
    /\ x_net' = swin_forward_tail(config, x_net)
    /\ net_pc' = IF IsTensor(x_net') THEN "done" ELSE "failed"
    /\ trace' = Append(trace, Event("norm", 0, "norm", swin_norm(config),
                                    Channels(x_net), 0, -1))
    /\ UNCHANGED <<config, encoder, middle, decoder, conv_residual, residuals,
                   i_loop, tensorVars, lossVars, poseVars, vitVars>>

SwinNext ==
    \/ SwinConstruct
    \/ \E grid \in Grids : SwinPatching(grid)
    \/ SwinEncoderStep
    \/ SwinHead

SpecSwin == SwinInit /\ [][SwinNext]_vars

-----------------------------------------------------------------------------
(***************************************************************************)
(* Properties of the SwinTransformer.                                      *)
(***************************************************************************)
IsSwin == net_pc # "off" /\ config.cls = "SwinTransformer"

\* C16 (as stated): forward applies every stage built from depths once and
\* in order, each non-final stage followed by its patch merging: all
\* n = len(depths) stages have run when the final norm and head do.
C16_ForwardAppliesEveryStage ==
    (IsSwin /\ net_pc = "done") =>
        /\ Len(EventsAs("encoder", "stage")) = NStages
        /\ \A k \in 0..(NStages - 1) :
            /\ EventsAs("encoder", "stage")[k + 1].module = encoder[2 * k + 1]
            /\ EventsAs("encoder", "stage")[k + 1].module.i_stage = k
        /\ Len(EventsAs("encoder", "downsample")) = NStages - 1

-----------------------------------------------------------------------------
(***************************************************************************)
(* models/modules/modulated/vit_block.py: ViTEncoderBlock_Modulated        *)
(*                                                                         *)
(* forward is a list of assignments "target = module(args)".  A value is   *)
(* the set of the modules whose output went into it; a local that has not  *)
(* been assigned is Unbound, and reading it raises UnboundLocalError.      *)
(***************************************************************************)
Unbound == [bound |-> FALSE, from |-> {}]

Value(from) == [bound |-> TRUE, from |-> from]

Statement(line, target, module, args) ==
    [line |-> line, target |-> target, module |-> module, args |-> args]

\* Lines 41 to 49 of forward; "+" is the addition of two tensors.
vit_forward_statements ==
    << Statement(41, "x", "mod1", <<"x">>),
       Statement(42, "x", "ln_1", <<"input">>),
       Statement(43, "x", "self_attention", <<"x", "x", "x">>),
       Statement(44, "x", "dropout", <<"x">>),
       Statement(45, "x", "+", <<"x", "input">>),
       Statement(47, "x", "mod2", <<"x">>),
       Statement(48, "y", "ln_2", <<"x">>),
       Statement(49, "y", "mlp", <<"y">>) >>

\* Line 50: return x + y.
vit_return_statement == Statement(50, "return", "+", <<"x", "y">>)

\* The locals on entry: the parameter is bound, x and y are not.
vit_entry_locals ==
    [name \in {"input", "x", "y", "return"} |->
        IF name = "input" THEN Value({"input"}) ELSE Unbound]

\* The statements run one after the other, from the locals env; the run
\* stops at the first statement that reads an unbound local.
RECURSIVE Exec(_, _)
Exec(statements, env) ==
    IF statements = <<>> THEN [raised |-> "none", line |-> 0, env |-> env]
    ELSE
      LET st == Head(statements)
          read == {st.args[k] : k \in DOMAIN st.args}
      IN  IF \E name \in read : ~env[name].bound
          THEN [raised |-> "UnboundLocalError", line |-> st.line, env |-> env]
          ELSE Exec(Tail(statements),
                    [env EXCEPT ![st.target] =
                        Value({st.module} \cup
                              UNION {env[name].from : name \in read})])

\* forward(input): the assertion on the number of dimensions, then the
\* statements.
vit_forward(input_shape) ==
    IF Len(input_shape) # 3
    THEN [raised |-> "AssertionError", line |-> 40, env |-> vit_entry_locals]
    ELSE Exec(Append(vit_forward_statements, vit_return_statement),
              vit_entry_locals)

\* The shapes forward may be called with: two to four dimensions.
ViTInputs == UNION {[1..rank -> 1..MaxSide] : rank \in 2..4}

ViTInit ==
    /\ vit_pc = "built"
    /\ vit_input \in ViTInputs
    /\ vit_locals = vit_entry_locals
    /\ vit_return = Fail("none")
    /\ TensorOff
    /\ LossOff
    /\ PoseOff
    /\ NetOff

\* block(input)
ViTForward ==
    /\ vit_pc = "built"
    /\ vit_pc' = "done"
    /\ LET run == vit_forward(vit_input)
       IN  /\ vit_locals' = run.env
           /\ vit_return' = IF run.raised = "none" THEN Feature(vit_input)
                            ELSE Fail(run.raised)
    /\ UNCHANGED <<vit_input, tensorVars, lossVars, poseVars, netVars>>

ViTNext == ViTForward

SpecViT == ViTInit /\ [][ViTNext]_vars

\* C18 (as stated): called with a 3-dimensional input, forward runs to its
\* return: every local it reads has been assigned before, and the output of
\* mod1 and of mod2 is part of the returned value.
C18_ModulatedForwardReturns ==
    (vit_pc = "done" /\ Len(vit_input) = 3) =>
        /\ IsTensor(vit_return)
        /\ vit_return.kind # "UnboundLocalError"
        /\ {"mod1", "mod2"} \subseteq vit_locals["return"].from

-----------------------------------------------------------------------------
(***************************************************************************)
(* pose_estimation/pose_data_class.py: PoseData.__getitem__                *)
(*                                                                         *)
(* The indices of instance[indices] are an int or a tuple of ints.  What   *)
(* comes back is a mapping of nested_data (at the depth of the indices     *)
(* used), a record dictionary, or KeyError.                                *)
(***************************************************************************)
IntIndex(k) == [type |-> "int", value |-> <<k>>]

TupleIndex(t) == [type |-> "tuple", value |-> t]

Got(depth, value) == [kind |-> "value", depth |-> depth, value |-> value]

KeyError == [kind |-> "KeyError", depth |-> 0, value |-> <<>>]

\* "for i in indices: value = value[i]" from a mapping at this depth; below
\* the variants is a record dictionary, which has no int key.
RECURSIVE getitem_walk(_, _, _)
getitem_walk(value, indices, depth) ==
    IF indices = <<>> THEN Got(depth, value)
    ELSE IF depth >= 3 THEN KeyError
    ELSE IF Head(indices) \notin DOMAIN value THEN KeyError
    ELSE getitem_walk(value[Head(indices)], Tail(indices), depth + 1)

\* PoseData.__getitem__(self, indices)
getitem(self, indices) ==
    LET used == IF indices.type = "int" THEN <<1>> ELSE indices.value
    IN  IF Len(used) = 3
        THEN IF used \in DOMAIN self.data.rec
             THEN Got(3, self.data.rec[used]) ELSE KeyError
        ELSE getitem_walk(self.nested_data, used, 0)

\* The indices an instance may be asked for.
Indices ==
    {IntIndex(k) : k \in Levels}
        \cup {TupleIndex(t) : t \in {<<>>, <<1>>, <<2>>, <<3>>, <<1, 1>>,
                                     <<2, 1>>, <<1, 1, 1>>, <<1, 2, 2>>}}

\* on[indices]
GetItem(on, indices) ==
    /\ pose_pc = "scanned"
    /\ on \in Held
    /\ asked' = [on |-> on, indices |-> indices]
    /\ got' = getitem(Instance(on), indices)
    /\ UNCHANGED <<pose_pc, listing, entries, records, parent, child,
                   last_call, nsplits, decodes, invocations,
                   tensorVars, lossVars, netVars, vitVars>>

\* The dataset indexer scanned, split by level and indexed.
IndexNext ==
    \/ Scan
    \/ \E on \in {"parent", "child"}, level \in Levels : LevelSplit(on, level)
    \/ \E on \in {"parent", "child"}, indices \in Indices : GetItem(on, indices)

SpecIndex == PoseInit /\ [][IndexNext]_vars

\* C15 (as stated): for every instance and every integer level k present in
\* nested_data, instance[k] returns the scene mapping of level k, the value
\* instance[(k,)] returns.
C15_IntIndexReturnsItsLevel ==
    (/\ pose_pc = "scanned"
     /\ asked.on \in Held
     /\ asked.indices.type = "int"
     /\ asked.indices.value[1] \in DOMAIN Instance(asked.on).nested_data)
        => /\ got.kind = "value"
           /\ got.depth = 1
           /\ got.value = Instance(asked.on).nested_data[asked.indices.value[1]]
           /\ got = getitem(Instance(asked.on), TupleIndex(asked.indices.value))

=============================================================================
